---------------------------- MODULE Spec2Model ----------------------------
(***************************************************************************)
(* The view-animation engine of gfaestus (src/src/app/mainview.rs):        *)
(* the shared AtomicCell<View>, the MainView methods that the main thread  *)
(* calls, the AnimMsg channel and the anim_handler_thread loop with        *)
(* AnimHandler::update.                                                    *)
(*                                                                         *)
(* f32 values are fixed-point integers, rounded to nearest (ties to even)  *)
(* after every arithmetic operation, in the order the code evaluates them: *)
(*   time      TimeOne  units per second (one unit is the 2.5 ms sleep)    *)
(*   scale     ScaleOne units per 1.0                                      *)
(*   zoom vel. ZoomOne  units per 1.0                                      *)
(*   friction  FricOne  units per 1.0                                      *)
(*   pan velocity, positions: one unit per 1.0                             *)
(***************************************************************************)
EXTENDS Integers, Sequences, FiniteSets, TLC

\* ------------------------------------------------------------ bounds
\* How many MainView calls the main thread makes in one behaviour.
MaxOps == 3
\* How many integration steps the engine makes in one behaviour.
MaxTicks == 2
\* How many messages the channel holds at once (the channel is unbounded).
MaxQueue == 2
\* Integration steps of a run that lets the velocities die down.
MaxRestTicks == 6

\* ------------------------------------------------------- fixed point
TimeOne == 400
ScaleOne == 100
ZoomOne == 1000000
FricOne == 1000

Abs(n) == IF n < 0 THEN -n ELSE n
Max(a, b) == IF a >= b THEN a ELSE b
Min(a, b) == IF a <= b THEN a ELSE b

\* n / d rounded to nearest, ties to even (d > 0); \div is floor division.
RoundDiv(n, d) ==
    LET q == n \div d
        r == n % d
    IN  IF 2 * r < d THEN q
        ELSE IF 2 * r > d THEN q + 1
        ELSE IF q % 2 = 0 THEN q ELSE q + 1

\* z * m / d rounded like RoundDiv, for d a multiple of 1000 and a product
\* too wide for one multiplication: z is split at 1000.
MulDivWide(z, m, d) ==
    LET zh == z \div 1000
        t == (z % 1000) * m
        u == zh * m + (t \div 1000)
        q == u \div (d \div 1000)
        r == (u % (d \div 1000)) * 1000 + (t % 1000)
    IN  IF 2 * r < d THEN q
        ELSE IF 2 * r > d THEN q + 1
        ELSE IF q % 2 = 0 THEN q ELSE q + 1

\* a * dt with dt a Duration::as_secs_f32 value.
MulTime(a, dt) == RoundDiv(a * dt, TimeOne)
\* a * z with z a zoom velocity.
MulZoom(a, z) == MulDivWide(z, a, ZoomOne)
\* a * s with s a scale or a multiplier around 1.0.
MulScale(a, s) == RoundDiv(a * s, ScaleOne)
\* a * f with f a friction factor.
MulFric(a, f) == MulDivWide(a, f, FricOne)

\* ------------------------------------------------------------- types
Pt(px, py) == [x |-> px, y |-> py]
ZeroPoint == Pt(0, 0)
PtAdd(p, q) == Pt(p.x + q.x, p.y + q.y)
PtSub(p, q) == Pt(p.x - q.x, p.y - q.y)

NoneF == [some |-> FALSE, val |-> 0]
SomeF(v) == [some |-> TRUE, val |-> v]
NoneP == [some |-> FALSE, val |-> ZeroPoint]
SomeP(p) == [some |-> TRUE, val |-> p]

MkView(c, s) == [center |-> c, scale |-> s]
\* View::default(): center (0, 0), scale 1.0.
DefaultView == MkView(ZeroPoint, ScaleOne)
NoneV == [some |-> FALSE, val |-> DefaultView]

\* AnimSettings::default().
DefaultSettings ==
    [ min_view_scale |-> SomeF(ScaleOne \div 2),
      max_view_scale |-> NoneF,
      max_speed |-> SomeF(600),
      key_pan_speed |-> 400,
      mouse_pan_mult |-> ScaleOne,
      wheel_zoom_base_speed |-> (45 * ScaleOne) \div 100 ]

\* AnimHandler::default().
DefaultAnim ==
    [ mouse_pan_screen_origin |-> NoneP,
      view_anim_target |-> NoneV,
      view_pan_const |-> ZeroPoint,
      view_pan_delta |-> ZeroPoint,
      view_scale_delta |-> 0 ]

\* ------------------------------------------------- AnimHandler (pure)
\* 10.0_f32.powf(dt - 1.0) for 0 <= dt < 1 s, in FricOne units: the values at
\* dt = 0.0, 0.1, ..., 1.0 s, linearly interpolated in between.
Pow10Knots == << 100, 126, 158, 200, 251, 316, 398, 501, 631, 794, 1000 >>
Pow10(dt) ==
    LET step == TimeOne \div 10
        i == dt \div step
        r == dt % step
    IN  Pow10Knots[i + 1]
          + RoundDiv((Pow10Knots[i + 2] - Pow10Knots[i + 1]) * r, step)

\* The friction with + in place of -.
Friction_Plus(dt) == IF dt >= TimeOne THEN 0 ELSE FricOne + Pow10(dt)

\* zoom_friction and pan_friction of update(): the same expression twice.
Friction(dt) == IF dt >= TimeOne THEN 0 ELSE FricOne - Pow10(dt)

\* The threshold 0.00001 under which update() sets view_scale_delta to 0.0.
ZoomSnap == 10

\* update() with = in place of += for the scale.
UpdateScale_Assign(settings, scale, dt, zv) ==
    LET s1 == MulZoom(MulTime(scale, dt), zv)
        s2 == IF settings.min_view_scale.some
              THEN Max(s1, settings.min_view_scale.val) ELSE s1
    IN  IF settings.max_view_scale.some
        THEN Min(s2, settings.max_view_scale.val) ELSE s2

\* update() without its max(min_view_scale).
UpdateScale_NoMin(settings, scale, dt, zv) ==
    LET s1 == scale + MulZoom(MulTime(scale, dt), zv)
    IN  IF settings.max_view_scale.some
        THEN Min(s1, settings.max_view_scale.val) ELSE s1

\* view.scale += view.scale * dt * view_scale_delta, then max(min_view_scale),
\* then min(max_view_scale).
UpdateScale(settings, scale, dt, zv) ==
    LET s1 == scale + MulZoom(MulTime(scale, dt), zv)
        s2 == IF settings.min_view_scale.some
              THEN Max(s1, settings.min_view_scale.val) ELSE s1
    IN  IF settings.max_view_scale.some
        THEN Min(s2, settings.max_view_scale.val) ELSE s2

\* dxy of update() with the velocities added to the drag vector.
UpdatePan_Sum(settings, a, mouse, dt) ==
    LET v == PtAdd(a.view_pan_const, a.view_pan_delta)
        d == IF a.mouse_pan_screen_origin.some /\ mouse.some
             THEN PtSub(mouse.val, a.mouse_pan_screen_origin.val)
             ELSE ZeroPoint
    IN  Pt(MulTime(MulScale(d.x, settings.mouse_pan_mult), dt) + MulTime(v.x, dt),
           MulTime(MulScale(d.y, settings.mouse_pan_mult), dt) + MulTime(v.y, dt))

\* dxy of update(): the drag vector when a drag origin and a mouse position
\* are both present, the constant plus the impulse velocity otherwise.
UpdatePan(settings, a, mouse, dt) ==
    IF a.mouse_pan_screen_origin.some /\ mouse.some
    THEN LET d == PtSub(mouse.val, a.mouse_pan_screen_origin.val)
         IN  Pt(MulTime(MulScale(d.x, settings.mouse_pan_mult), dt),
                MulTime(MulScale(d.y, settings.mouse_pan_mult), dt))
    ELSE LET v == PtAdd(a.view_pan_const, a.view_pan_delta)
         IN  Pt(MulTime(v.x, dt), MulTime(v.y, dt))

\* The decay without the test against 0.00001.
UpdateDecay_NoSnap(a, dt) ==
    LET f == Friction(dt)
    IN  [a EXCEPT !.view_pan_delta = Pt(MulFric(@.x, f), MulFric(@.y, f)),
                  !.view_scale_delta = MulFric(@, f)]

\* The decay at the end of update().
UpdateDecay(a, dt) ==
    LET f == Friction(dt)
        z == MulFric(a.view_scale_delta, f)
    IN  [a EXCEPT !.view_pan_delta = Pt(MulFric(@.x, f), MulFric(@.y, f)),
                  !.view_scale_delta = IF Abs(z) < ZoomSnap THEN 0 ELSE z]

\* update() moving the center by the scale the tick started with.
Update_OldScale(settings, a, v, mouse, dt) ==
    LET scale == UpdateScale(settings, v.scale, dt, a.view_scale_delta)
        dxy == UpdatePan(settings, a, mouse, dt)
        center == PtAdd(v.center,
                        Pt(MulScale(dxy.x, v.scale), MulScale(dxy.y, v.scale)))
    IN  [view |-> MkView(center, scale), anim |-> UpdateDecay(a, dt)]

\* AnimHandler::update: the new View and the new handler state.
Update(settings, a, v, mouse, dt) ==
    LET scale == UpdateScale(settings, v.scale, dt, a.view_scale_delta)
        dxy == UpdatePan(settings, a, mouse, dt)
        center == PtAdd(v.center,
                        Pt(MulScale(dxy.x, scale), MulScale(dxy.y, scale)))
    IN  [view |-> MkView(center, scale), anim |-> UpdateDecay(a, dt)]

\* start_mouse_pan() that keeps an origin already set.
start_mouse_pan_KeepFirst(a, origin) ==
    [a EXCEPT !.mouse_pan_screen_origin = IF @.some THEN @ ELSE SomeP(origin)]

start_mouse_pan(a, origin) == [a EXCEPT !.mouse_pan_screen_origin = SomeP(origin)]
end_mouse_pan(a) == [a EXCEPT !.mouse_pan_screen_origin = NoneP]

\* pan_const() without the handover of an axis set to zero.
pan_const_NoHandover(a, dx, dy) ==
    [a EXCEPT !.view_pan_const =
        Pt(IF dx.some THEN dx.val ELSE a.view_pan_const.x,
           IF dy.some THEN dy.val ELSE a.view_pan_const.y)]

\* pan_const() with unwrap_or(0.0) in place of unwrap_or(old).
pan_const_Zero(a, dx, dy) ==
    LET px == IF dx = SomeF(0) THEN a.view_pan_const.x ELSE a.view_pan_delta.x
        py == IF dy = SomeF(0) THEN a.view_pan_const.y ELSE a.view_pan_delta.y
        cx == IF dx.some THEN dx.val ELSE 0
        cy == IF dy.some THEN dy.val ELSE 0
    IN  [a EXCEPT !.view_pan_delta = Pt(px, py), !.view_pan_const = Pt(cx, cy)]

\* AnimHandler::pan_const: an axis set to zero hands the old constant over to
\* view_pan_delta; an axis given as None keeps its constant.
pan_const(a, dx, dy) ==
    LET px == IF dx = SomeF(0) THEN a.view_pan_const.x ELSE a.view_pan_delta.x
        py == IF dy = SomeF(0) THEN a.view_pan_const.y ELSE a.view_pan_delta.y
        cx == IF dx.some THEN dx.val ELSE a.view_pan_const.x
        cy == IF dy.some THEN dy.val ELSE a.view_pan_const.y
    IN  [a EXCEPT !.view_pan_delta = Pt(px, py), !.view_pan_const = Pt(cx, cy)]

Clamp(v, lo, hi) == IF v < lo THEN lo ELSE IF v > hi THEN hi ELSE v

\* pan_delta() with = in place of +=.
pan_delta_Assign(a, settings, dxy) ==
    LET m == settings.max_speed
    IN  [a EXCEPT !.view_pan_delta =
            IF m.some
            THEN Pt(Clamp(dxy.x, -m.val, m.val), Clamp(dxy.y, -m.val, m.val))
            ELSE dxy]

\* AnimHandler::pan_delta: add, then clamp each axis to [-max_speed, max_speed].
pan_delta(a, settings, dxy) ==
    LET d == PtAdd(a.view_pan_delta, dxy)
        m == settings.max_speed
    IN  [a EXCEPT !.view_pan_delta =
            IF m.some
            THEN Pt(Clamp(d.x, -m.val, m.val), Clamp(d.y, -m.val, m.val))
            ELSE d]

\* f32::log2 of a scale, in ScaleOne units, for scale >= 1.0: the integer part
\* by halving, seven fractional bits by repeated squaring of the mantissa
\* (kept in 1/10000).
RECURSIVE Log2Bits(_, _)
Log2Bits(m, bits) ==
    IF bits = 0 THEN 0
    ELSE LET sq == (m * m) \div 10000
         IN  IF sq >= 20000
             THEN 2 ^ (bits - 1) + Log2Bits(sq \div 2, bits - 1)
             ELSE Log2Bits(sq, bits - 1)
RECURSIVE Log2Int(_)
Log2Int(s) == IF s >= 2 * ScaleOne THEN 1 + Log2Int(s \div 2) ELSE 0
RECURSIVE Halve(_, _)
Halve(m, n) == IF n = 0 THEN m ELSE Halve(m \div 2, n - 1)
Log2(s) ==
    LET n == Log2Int(s)
        m == Halve(s * (10000 \div ScaleOne), n)
    IN  n * ScaleOne + RoundDiv(Log2Bits(m, 7) * ScaleOne, 128)

\* current_scale.log2().max(1.0): log2 of a scale below 2.0 is below 1.0, and
\* that of a scale <= 0.0 is -inf or NaN, which max(1.0) turns into 1.0.
DeltaMult(scale) == IF scale < 2 * ScaleOne THEN ScaleOne ELSE Max(Log2(scale), ScaleOne)

\* zoom_delta() without the max(1.0): log2 of a scale in [1.0, 2.0) is the
\* fractional part alone, below it the model takes 0.
zoom_delta_NoFloor(a, current_scale, dz) ==
    [a EXCEPT !.view_scale_delta =
        @ + MulScale(dz, IF current_scale < ScaleOne THEN 0
                         ELSE Log2(current_scale))]

\* zoom_delta() with = in place of +=.
zoom_delta_Assign(a, current_scale, dz) ==
    [a EXCEPT !.view_scale_delta = MulScale(dz, DeltaMult(current_scale))]

\* AnimHandler::zoom_delta.
zoom_delta(a, current_scale, dz) ==
    [a EXCEPT !.view_scale_delta = @ + MulScale(dz, DeltaMult(current_scale))]

\* ------------------------------------------------------------- state
VARIABLES
    view,          \* MainView.view: the shared AtomicCell<View>
    initial_view,  \* AnimHandlerThread.initial_view
    settings,      \* AnimHandlerThread.settings
    mouse_pos,     \* AnimHandlerThread.mouse_pos
    chan,          \* the AnimMsg channel, oldest message first
    anim,          \* the AnimHandler owned by the engine thread
    pc,            \* engine thread: "recv", "load", "store" or "sleep"
    dt,            \* engine thread: dt of the integration step under way
    pos,           \* engine thread: mouse_pos.load() of that step
    tsettings,     \* engine thread: settings.load() of that step
    before,        \* engine thread: view.load() of update_cell
    elapsed,       \* last_update.elapsed(), in time units
    mpc,           \* main thread: "idle", or "store" inside set_view_center/scale
    mlocal,        \* main thread: the View that set_view_center/scale will store
    rview,         \* a reader thread: the View its last view() returned
    nops,          \* history: MainView calls made so far
    nticks,        \* history: integration steps made so far
    writer,        \* history: the thread that made the last store to view
    stored,        \* history: the argument of the last completed store to view
    rexpect,       \* history: `stored` at the reader's last view()
    passed,        \* history: the fields last passed to set_initial_view
    resets,        \* history: reset_view calls in a row, no other store since
    tickPrev,      \* history: the velocities the last tick but one left
    tickLast,      \* history: the velocities the last tick left
    applied,       \* history: the messages applied since the last tick
    between,       \* history: `applied` between the last two ticks
    sentLog,       \* history: every message sent, oldest first
    recvLog,       \* history: every message the engine applied, oldest first
    held           \* history: the pan keys that are down

vars == << view, initial_view, settings, mouse_pos, chan, anim, pc, dt, pos,
           tsettings,
           before, elapsed, mpc, mlocal, rview, nops, nticks, writer, stored,
           rexpect, passed, resets, tickPrev, tickLast, applied, between,
           sentLog, recvLog, held >>

engineVars == << pc, dt, pos, tsettings, before >>
mainVars == << mpc, mlocal >>
histVars == << rview, rexpect, passed, resets >>
decayVars == << tickPrev, tickLast, applied, between >>
logVars == << sentLog, recvLog, held >>

\* A store that writes the center and leaves the scale for later.
CellStore_Torn(cell, v) == [v EXCEPT !.scale = cell.scale]

\* AtomicCell::store and AtomicCell::load: the whole value, in one step.
CellStore(cell, v) == v
CellLoad(cell) == cell

Velocities(a) == [pan |-> a.view_pan_delta, zoom |-> a.view_scale_delta]

\* MainView::new and anim_handler_thread up to the spawn: the cell holds
\* View::default(), initial_view is a copy of it, the channel is empty and
\* last_update is now. The handler has the velocities pan and zoom.
InitWith(pan, zoom) ==
    /\ view = DefaultView
    /\ initial_view = CellLoad(view)
    /\ settings = DefaultSettings
    /\ mouse_pos = NoneP
    /\ chan = << >>
    /\ anim = [DefaultAnim EXCEPT !.view_pan_delta = pan,
                                  !.view_scale_delta = zoom]
    /\ pc = "recv"
    /\ dt = 0
    /\ pos = NoneP
    /\ tsettings = DefaultSettings
    /\ before = DefaultView
    /\ elapsed = 0
    /\ mpc = "idle"
    /\ mlocal = DefaultView
    /\ rview = DefaultView
    /\ nops = 0
    /\ nticks = 0
    /\ writer = "none"
    /\ stored = DefaultView
    /\ rexpect = DefaultView
    /\ passed = DefaultView
    /\ resets = 0
    /\ tickPrev = Velocities(anim)
    /\ tickLast = Velocities(anim)
    /\ applied = << >>
    /\ between = << >>
    /\ sentLog = << >>
    /\ recvLog = << >>
    /\ held = { }

\* The handler is AnimHandler::default(): both velocities are 0.
Init == InitWith(DefaultAnim.view_pan_delta, DefaultAnim.view_scale_delta)

\* ---------------------------------------------------------- messages
MsgSetMousePan(origin) ==
    [kind |-> "SetMousePan", origin |-> origin, dx |-> NoneF, dy |-> NoneF,
     dxy |-> ZeroPoint, dz |-> 0]
MsgPanConst(dx, dy) ==
    [kind |-> "PanConst", origin |-> NoneP, dx |-> dx, dy |-> dy,
     dxy |-> ZeroPoint, dz |-> 0]
MsgPanDelta(dxy) ==
    [kind |-> "PanDelta", origin |-> NoneP, dx |-> NoneF, dy |-> NoneF,
     dxy |-> dxy, dz |-> 0]
MsgZoomDelta(dz) ==
    [kind |-> "ZoomDelta", origin |-> NoneP, dx |-> NoneF, dy |-> NoneF,
     dxy |-> ZeroPoint, dz |-> dz]

\* The match of the drain loop: one message applied to the handler.
ApplyMsg(a, msg, cfg, cell) ==
    CASE msg.kind = "SetMousePan" ->
            IF msg.origin.some THEN start_mouse_pan(a, msg.origin.val)
            ELSE end_mouse_pan(a)
      [] msg.kind = "PanConst" -> pan_const(a, msg.dx, msg.dy)
      [] msg.kind = "PanDelta" -> pan_delta(a, cfg, msg.dxy)
      [] msg.kind = "ZoomDelta" -> zoom_delta(a, CellLoad(cell).scale, msg.dz)

\* A send that puts the message ahead of those waiting.
Send_Front(msg) ==
    /\ Len(chan) < MaxQueue
    /\ chan' = << msg >> \o chan
    /\ sentLog' = Append(sentLog, msg)

\* msg_tx.send on the unbounded channel.
Send(msg) ==
    /\ Len(chan) < MaxQueue
    /\ chan' = Append(chan, msg)
    /\ sentLog' = Append(sentLog, msg)

\* A MainView call by the main thread, which is inside no other call.
MainCall ==
    /\ mpc = "idle"
    /\ nops < MaxOps
    /\ nops' = nops + 1

\* ------------------------------------------------------ engine thread
\* update_delay (5 ms) and sleep_delay (2500 us) of the engine loop.
UpdateDelay == 2
SleepDelay == 1

\* The times at which the engine thread is seen to wake from a sleep: on
\* schedule (each sleep_delay later), or late by up to a second.
WakeTimes == { 1, 2, 3, TimeOne }

\* A drain that publishes the View after each command it applies.
EngineRecv_Publish ==
    /\ pc = "recv"
    /\ chan # << >>
    /\ anim' = ApplyMsg(anim, Head(chan), settings, view)
    /\ chan' = Tail(chan)
    /\ applied' = Append(applied, Head(chan))
    /\ recvLog' = Append(recvLog, Head(chan))
    /\ view' = CellStore(view, [CellLoad(view) EXCEPT
                                  !.center = PtAdd(@, anim'.view_pan_delta)])
    /\ stored' = view'
    /\ UNCHANGED << sentLog, held, initial_view, settings, mouse_pos,
                    engineVars, elapsed, mainVars, histVars, nops, nticks,
                    writer, tickPrev, tickLast, between >>

\* while let Ok(msg) = msg_rx.try_recv(): one message received and applied.
EngineRecv ==
    /\ pc = "recv"
    /\ chan # << >>
    /\ anim' = ApplyMsg(anim, Head(chan), settings, view)
    /\ chan' = Tail(chan)
    /\ applied' = Append(applied, Head(chan))
    /\ recvLog' = Append(recvLog, Head(chan))
    /\ UNCHANGED << sentLog, held, view, initial_view, settings, mouse_pos,
                    engineVars, elapsed, mainVars, histVars, nops, nticks,
                    writer, stored, tickPrev, tickLast, between >>

\* The elapsed test with >= in place of >.
EngineCheck_AtLeast(limit) ==
    /\ pc = "recv"
    /\ chan = << >>
    /\ IF elapsed >= UpdateDelay
       THEN /\ nticks < limit
            /\ dt' = elapsed
            /\ pos' = mouse_pos
            /\ tsettings' = CellLoad(settings)
            /\ pc' = "load"
       ELSE /\ pc' = "sleep"
            /\ UNCHANGED << dt, pos, tsettings >>
    /\ UNCHANGED << logVars, view, initial_view, settings, mouse_pos, chan,
                    anim, before, elapsed, mainVars, histVars, decayVars,
                    nops, nticks, writer, stored >>

\* try_recv finds the channel empty; then last_update.elapsed() is compared
\* with update_delay, and dt, settings and mouse_pos are read for the step.
EngineCheck(limit) ==
    /\ pc = "recv"
    /\ chan = << >>
    /\ IF elapsed > UpdateDelay
       THEN /\ nticks < limit
            /\ dt' = elapsed
            /\ pos' = mouse_pos
            /\ tsettings' = CellLoad(settings)
            /\ pc' = "load"
       ELSE /\ pc' = "sleep"
            /\ UNCHANGED << dt, pos, tsettings >>
    /\ UNCHANGED << logVars, view, initial_view, settings, mouse_pos, chan,
                    anim, before, elapsed, mainVars, histVars, decayVars,
                    nops, nticks, writer, stored >>

\* update_cell: let before = view.load().
EngineLoad ==
    /\ pc = "load"
    /\ before' = CellLoad(view)
    /\ pc' = "store"
    /\ UNCHANGED << logVars, view, initial_view, settings, mouse_pos, chan,
                    anim, dt, pos, tsettings, elapsed, mainVars, histVars,
                    decayVars, nops, nticks, writer, stored >>

\* update_cell: view.store(self.update(settings, before, mouse_pos, dt)), then
\* last_update = Instant::now().
EngineStore ==
    /\ pc = "store"
    /\ LET r == Update(tsettings, anim, before, pos, dt)
       IN  /\ view' = CellStore(view, r.view)
           /\ stored' = r.view
           /\ anim' = r.anim
           /\ tickLast' = Velocities(r.anim)
    /\ tickPrev' = tickLast
    /\ between' = applied
    /\ applied' = << >>
    /\ writer' = "engine"
    /\ resets' = 0
    /\ elapsed' = 0
    /\ nticks' = nticks + 1
    /\ pc' = "recv"
    /\ UNCHANGED << logVars, initial_view, settings, mouse_pos, chan, dt,
                    pos, tsettings, before, mainVars, rview, rexpect, passed,
                    nops >>

\* std::thread::sleep(sleep_delay): the thread wakes sleep_delay later or more.
EngineSleep ==
    /\ pc = "sleep"
    /\ \E t \in WakeTimes :
          /\ t >= elapsed + SleepDelay
          /\ elapsed' = t
    /\ pc' = "recv"
    /\ UNCHANGED << logVars, view, initial_view, settings, mouse_pos, chan,
                    anim, dt, pos, tsettings, before, mainVars, histVars,
                    decayVars, nops, nticks, writer, stored >>

\* The engine thread, making at most `limit` integration steps.
Engine(limit) ==
    EngineRecv \/ EngineCheck(limit) \/ EngineLoad \/ EngineStore \/ EngineSleep

\* -------------------------------------------------------- main thread
\* The inputs the main thread draws its arguments from.
Positions == { Pt(0, 0), Pt(400, 200) }
Scales == { ScaleOne \div 4, 2 * ScaleOne }
WheelDeltas == { ZoomOne, -ZoomOne }
PanImpulses == { Pt(300, 0), Pt(-700, 0), Pt(0, -300) }
PanKeys == { "KeyPanUp", "KeyPanRight", "KeyPanDown", "KeyPanLeft" }
InitCenters == { NoneP } \cup { SomeP(p) : p \in Positions \ { ZeroPoint } }
InitScales == { NoneF, SomeF(ScaleOne \div 4) }

\* set_initial_view() with unwrap_or_default in place of unwrap_or(old).
set_initial_view_Default(old, center, scale) ==
    MkView(IF center.some THEN center.val ELSE DefaultView.center,
           IF scale.some THEN scale.val ELSE DefaultView.scale)

\* MainView::set_initial_view: the value stored to initial_view.
set_initial_view(old, center, scale) ==
    MkView(IF center.some THEN center.val ELSE old.center,
           IF scale.some THEN scale.val ELSE old.scale)

\* reset_view() restoring the center only.
reset_view_CenterOnly(cell, init) ==
    CellStore(cell, [CellLoad(cell) EXCEPT !.center = CellLoad(init).center])

\* MainView::reset_view: the value stored to view.
reset_view(cell, init) == CellStore(cell, CellLoad(init))

SetInitialView(center, scale) ==
    /\ MainCall
    /\ initial_view' = set_initial_view(CellLoad(initial_view), center, scale)
    /\ passed' = MkView(IF center.some THEN center.val ELSE passed.center,
                        IF scale.some THEN scale.val ELSE passed.scale)
    /\ resets' = 0
    /\ UNCHANGED << logVars, view, settings, mouse_pos, chan, anim,
                    engineVars, elapsed, mainVars, rview, rexpect, decayVars,
                    nticks, writer, stored >>

\* A reset that also brings the handler to rest.
ResetView_Rest ==
    /\ MainCall
    /\ view' = reset_view(view, initial_view)
    /\ anim' = [anim EXCEPT !.view_pan_delta = ZeroPoint,
                            !.view_scale_delta = 0]
    /\ stored' = initial_view
    /\ writer' = "main"
    /\ resets' = resets + 1
    /\ UNCHANGED << logVars, initial_view, settings, mouse_pos, chan,
                    engineVars, elapsed, mainVars, rview, rexpect, passed,
                    decayVars, nticks >>

\* reset_view(), also what apply_input does on a KeyResetView press.
ResetView ==
    /\ MainCall
    /\ view' = reset_view(view, initial_view)
    /\ stored' = initial_view
    /\ writer' = "main"
    /\ resets' = resets + 1
    /\ UNCHANGED << logVars, initial_view, settings, mouse_pos, chan, anim,
                    engineVars, elapsed, mainVars, rview, rexpect, passed,
                    decayVars, nticks >>

\* set_view_center: let mut view = self.view.load(); view.center = center.
SetViewCenterLoad(center) ==
    /\ MainCall
    /\ mlocal' = [CellLoad(view) EXCEPT !.center = center]
    /\ mpc' = "store"
    /\ UNCHANGED << logVars, view, initial_view, settings, mouse_pos, chan,
                    anim, engineVars, elapsed, histVars, decayVars, nticks,
                    writer, stored >>

\* set_view_scale: let mut view = self.view.load(); view.scale = scale.
SetViewScaleLoad(scale) ==
    /\ MainCall
    /\ mlocal' = [CellLoad(view) EXCEPT !.scale = scale]
    /\ mpc' = "store"
    /\ UNCHANGED << logVars, view, initial_view, settings, mouse_pos, chan,
                    anim, engineVars, elapsed, histVars, decayVars, nticks,
                    writer, stored >>

\* set_view_center and set_view_scale: self.view.store(view).
SetViewStore ==
    /\ mpc = "store"
    /\ view' = CellStore(view, mlocal)
    /\ stored' = mlocal
    /\ writer' = "main"
    /\ resets' = 0
    /\ mpc' = "idle"
    /\ UNCHANGED << logVars, initial_view, settings, mouse_pos, chan, anim,
                    engineVars, elapsed, mlocal, rview, rexpect, passed,
                    decayVars, nops, nticks >>

\* set_mouse_pos.
SetMousePos(p) ==
    /\ MainCall
    /\ mouse_pos' = p
    /\ UNCHANGED << logVars, view, initial_view, settings, chan, anim,
                    engineVars, elapsed, mainVars, histVars, decayVars,
                    nticks, writer, stored >>

\* A send by the main thread changes the channel and nothing else.
MainSend(msg) ==
    /\ MainCall
    /\ Send(msg)
    /\ UNCHANGED << recvLog, view, initial_view, settings, mouse_pos, anim,
                    engineVars, elapsed, mainVars, histVars, decayVars,
                    nticks, writer, stored >>

\* apply_input, SystemInput::Keyboard with a pan key: pan_delta(invert) is 1.0
\* or -1.0 when pressed and 0.0 when released, on the key's axis.
KeyDelta(key, pressed) ==
    LET d == IF pressed THEN 1 ELSE 0
    IN  IF key \in { "KeyPanUp", "KeyPanLeft" } THEN -d ELSE d

\* AnimHandlerThread::pan_const: each given axis times key_pan_speed.
SendPanConst(dx, dy) ==
    LET speed == settings.key_pan_speed
    IN  MainSend(MsgPanConst(IF dx.some THEN SomeF(dx.val * speed) ELSE NoneF,
                             IF dy.some THEN SomeF(dy.val * speed) ELSE NoneF))

KeyPan(key, pressed) ==
    /\ IF key \in { "KeyPanUp", "KeyPanDown" }
       THEN SendPanConst(NoneF, SomeF(KeyDelta(key, pressed)))
       ELSE SendPanConst(SomeF(KeyDelta(key, pressed)), NoneF)
    /\ held' = IF pressed THEN held \cup { key } ELSE held \ { key }

\* apply_input, SystemInput::MouseButton with ButtonMousePan.
MouseButtonPan(p, pressed) ==
    /\ MainSend(MsgSetMousePan(IF pressed THEN SomeP(p) ELSE NoneP))
    /\ UNCHANGED held

\* apply_input, SystemInput::Wheel with WheelZoom: zoom_delta(delta).
WheelZoom(delta) == MainSend(MsgZoomDelta(delta)) /\ UNCHANGED held

\* MainView::pan_delta.
PanDeltaCall(dxy) == MainSend(MsgPanDelta(dxy)) /\ UNCHANGED held

\* MainView::pan_const called with factors of its caller's choosing, which
\* AnimHandlerThread::pan_const multiplies by key_pan_speed.
PanFactors == { 0, 2 }
PanConstCall(dx, dy) == SendPanConst(dx, dy) /\ UNCHANGED held

\* AnimHandlerThread::update_settings with an f that replaces the two scale
\* bounds: settings.store(f(settings.load())). The method is private and no
\* code calls it.
BoundPairs ==
    { << SomeF(ScaleOne \div 2), SomeF(2 * ScaleOne) >>,
      << SomeF(2 * ScaleOne), SomeF(ScaleOne) >>,
      << NoneF, NoneF >> }
UpdateSettings(lo, hi) ==
    /\ MainCall
    /\ settings' = CellStore(settings,
                             [CellLoad(settings) EXCEPT !.min_view_scale = lo,
                                                        !.max_view_scale = hi])
    /\ UNCHANGED << logVars, view, initial_view, mouse_pos, chan, anim,
                    engineVars, elapsed, mainVars, histVars, decayVars,
                    nticks, writer, stored >>

\* -------------------------------------------------------- a reader
\* MainView::view() on another thread (the renderer): one load.
ReaderLoad ==
    /\ rview # CellLoad(view) \/ rexpect # stored
    /\ rview' = CellLoad(view)
    /\ rexpect' = stored
    /\ UNCHANGED << logVars, view, initial_view, settings, mouse_pos, chan,
                    anim, engineVars, elapsed, mainVars, passed, resets,
                    decayVars, nops, nticks, writer, stored >>

\* ------------------------------------------------------ specifications
\* The calls that read or write the View cells, and the wheel.
ViewCalls ==
    \/ \E c \in InitCenters, s \in InitScales : SetInitialView(c, s)
    \/ ResetView
    \/ \E p \in Positions \ { ZeroPoint } : SetViewCenterLoad(p)
    \/ \E s \in Scales : SetViewScaleLoad(s)
    \/ SetViewStore
    \/ \E d \in WheelDeltas : WheelZoom(d)

\* The input events and calls that send pan and drag commands.
InputCalls ==
    \/ \E k \in PanKeys, pressed \in BOOLEAN : KeyPan(k, pressed)
    \/ \E p \in Positions, pressed \in BOOLEAN : MouseButtonPan(p, pressed)
    \/ \E p \in { NoneP } \cup { SomeP(q) : q \in Positions } : SetMousePos(p)
    \/ \E v \in PanImpulses : PanDeltaCall(v)

Next == Engine(MaxTicks) \/ ViewCalls \/ InputCalls \/ ReaderLoad
Spec == Init /\ [][Next]_vars

\* The engine and the calls on the View cells.
NextView == Engine(MaxTicks) \/ ViewCalls
SpecView == Init /\ [][NextView]_vars

\* The engine, the stores of the main thread and a reader.
NextCell ==
    \/ Engine(MaxTicks)
    \/ ResetView
    \/ \E p \in Positions \ { ZeroPoint } : SetViewCenterLoad(p)
    \/ \E s \in Scales : SetViewScaleLoad(s)
    \/ SetViewStore
    \/ WheelZoom(ZoomOne)
    \/ ReaderLoad
SpecCell == Init /\ [][NextCell]_vars

\* The engine and pan impulses.
NextFold == Engine(MaxTicks) \/ \E v \in PanImpulses : PanDeltaCall(v)
SpecFold == Init /\ [][NextFold]_vars

\* The engine with velocities left by earlier impulses, and no impulse
\* command any more: pan keys and the drag button only.
DecayPans == { ZeroPoint, Pt(300, -200) }
DecayZooms == { 0, ZoomOne }
InitDecay == \E pan \in DecayPans, zoom \in DecayZooms : InitWith(pan, zoom)
NextDecay ==
    \/ Engine(MaxTicks)
    \/ \E pressed \in BOOLEAN : KeyPan("KeyPanRight", pressed)
    \/ \E p \in Positions \ { ZeroPoint } : MouseButtonPan(p, TRUE)
SpecDecay == InitDecay /\ [][NextDecay]_vars

\* The same with the small velocities a decay ends in, over more steps.
RestPans == { ZeroPoint, Pt(5, 0), Pt(-30, 12) }
RestZooms == { 0, ZoomSnap + 5, -(ZoomSnap + 2) }
InitRest == \E pan \in RestPans, zoom \in RestZooms : InitWith(pan, zoom)
NextRest ==
    \/ Engine(MaxRestTicks)
    \/ \E p \in Positions \ { ZeroPoint }, pressed \in BOOLEAN :
          MouseButtonPan(p, pressed)
SpecRest == InitRest /\ [][NextRest]_vars

\* The engine, the wheel and update_settings.
NextSettings ==
    \/ Engine(MaxTicks)
    \/ \E b \in BoundPairs : UpdateSettings(b[1], b[2])
    \/ \E d \in WheelDeltas : WheelZoom(d)
SpecSettings == Init /\ [][NextSettings]_vars

\* The engine and the four pan keys, each pressed when up and released when
\* down.
NextKeys ==
    \/ Engine(MaxTicks)
    \/ \E k \in PanKeys, pressed \in BOOLEAN :
          /\ pressed <=> k \notin held
          /\ KeyPan(k, pressed)
SpecKeys == Init /\ [][NextKeys]_vars

\* The engine and constant-pan calls on the x axis.
NextSpeed ==
    \/ Engine(MaxTicks)
    \/ \E f \in PanFactors : PanConstCall(SomeF(f), NoneF)
SpecSpeed == Init /\ [][NextSpeed]_vars

\* The engine, the wheel and set_view_scale.
WheelScales == { ScaleOne \div 4, 2 * ScaleOne, 3 * ScaleOne, 4 * ScaleOne }
NextWheel ==
    \/ Engine(MaxTicks)
    \/ \E d \in WheelDeltas : WheelZoom(d)
    \/ \E sc \in WheelScales : SetViewScaleLoad(sc)
    \/ SetViewStore
SpecWheel == Init /\ [][NextWheel]_vars

\* The engine loop and a producer that never stops, with the history left
\* out so that the loop can go round for ever: the drain, the integration
\* step and the pan-button events, as EngineRecv, EngineStore and
\* MouseButtonPan without their bookkeeping.
LiveRecv ==
    /\ pc = "recv"
    /\ chan # << >>
    /\ anim' = ApplyMsg(anim, Head(chan), settings, view)
    /\ chan' = Tail(chan)
    /\ UNCHANGED << logVars, view, initial_view, settings, mouse_pos,
                    engineVars, elapsed, mainVars, histVars, decayVars,
                    nops, nticks, writer, stored >>

LiveStore ==
    /\ pc = "store"
    /\ LET r == Update(tsettings, anim, before, pos, dt)
       IN  /\ view' = CellStore(view, r.view)
           /\ stored' = r.view
           /\ anim' = r.anim
    /\ writer' = "engine"
    /\ elapsed' = 0
    /\ pc' = "recv"
    /\ UNCHANGED << logVars, initial_view, settings, mouse_pos, chan, dt,
                    pos, tsettings, before, mainVars, histVars, decayVars,
                    nops, nticks >>

LivePanButton(p, pressed) ==
    /\ mpc = "idle"
    /\ Len(chan) < MaxQueue
    /\ chan' = Append(chan, MsgSetMousePan(IF pressed THEN SomeP(p) ELSE NoneP))
    /\ UNCHANGED << logVars, view, initial_view, settings, mouse_pos, anim,
                    engineVars, elapsed, mainVars, histVars, decayVars,
                    nops, nticks, writer, stored >>

\* The engine thread: the loop never exits and blocks nowhere but in its
\* sleep, so a thread that is scheduled keeps taking steps.
EngineLive ==
    LiveRecv \/ EngineCheck(MaxTicks) \/ EngineLoad \/ LiveStore \/ EngineSleep
NextLive ==
    \/ EngineLive
    \/ \E p \in Positions, pressed \in BOOLEAN : LivePanButton(p, pressed)
SpecLive == Init /\ [][NextLive]_vars /\ WF_vars(EngineLive)

\* The engine and the pan button, pressed and released at any position.
NextDrag ==
    \/ Engine(MaxTicks)
    \/ \E p \in Positions, pressed \in BOOLEAN : MouseButtonPan(p, pressed)
SpecDrag == Init /\ [][NextDrag]_vars

\* One integration step on its own: update_cell with a drawn View, handler
\* state, mouse position and dt, after at most one wheel event was applied.
StepTimes == { 2, 3, TimeOne \div 10, TimeOne }
StepViews == { DefaultView, MkView(Pt(400, 200), 3 * ScaleOne) }
StepConsts == { ZeroPoint, Pt(400, 0), Pt(-400, 400) }
StepPans == { ZeroPoint, Pt(300, -200) }
StepOrigins == { NoneP, SomeP(Pt(400, 200)) }
StepMice == { NoneP, SomeP(Pt(400, 200)), SomeP(Pt(0, 0)) }
StepWheels == { << >> } \cup { << MsgZoomDelta(d) >> : d \in WheelDeltas }
InitStep ==
    \E v \in StepViews, c \in StepConsts, p \in StepPans, o \in StepOrigins,
       m \in StepMice, w \in StepWheels, t \in StepTimes :
       LET a == [DefaultAnim EXCEPT !.view_pan_const = c,
                                    !.view_pan_delta = p,
                                    !.mouse_pan_screen_origin = o]
       IN  /\ view = v
           /\ initial_view = DefaultView
           /\ settings = DefaultSettings
           /\ mouse_pos = m
           /\ chan = << >>
           /\ anim = IF w = << >> THEN a ELSE ApplyMsg(a, w[1], settings, view)
           /\ pc = "load"
           /\ dt = t
           /\ pos = m
           /\ tsettings = DefaultSettings
           /\ before = DefaultView
           /\ elapsed = t
           /\ mpc = "idle"
           /\ mlocal = DefaultView
           /\ rview = DefaultView
           /\ nops = Len(w)
           /\ nticks = 0
           /\ writer = "main"
           /\ stored = v
           /\ rexpect = DefaultView
           /\ passed = DefaultView
           /\ resets = 0
           /\ tickPrev = Velocities(a)
           /\ tickLast = Velocities(a)
           /\ applied = w
           /\ between = << >>
           /\ sentLog = w
           /\ recvLog = w
           /\ held = { }
NextStep == EngineLoad \/ EngineStore
SpecStep == InitStep /\ [][NextStep]_vars

\* ---------------------------------------------------------- properties
ScaleInBounds(cfg, s) ==
    /\ cfg.min_view_scale.some => s >= cfg.min_view_scale.val
    /\ cfg.max_view_scale.some => s <= cfg.max_view_scale.val

HasKind(msgs, kind) == \E i \in 1..Len(msgs) : msgs[i].kind = kind

\* C1: the View published by an integration step has its scale at or above
\* min_view_scale and at or below max_view_scale, whichever is configured.
C1_ScaleBoundAfterTick ==
    writer = "engine" => ScaleInBounds(settings, CellLoad(view).scale)

\* A step that followed a zoom command took the scale down to min_view_scale.
C1_Witness ==
    /\ writer = "engine"
    /\ HasKind(between, "ZoomDelta")
    /\ before.scale > settings.min_view_scale.val
    /\ view.scale = settings.min_view_scale.val

\* C2: the View a reader can load always has its scale within the configured
\* bounds, whoever stored it.
C2_SharedScaleInBounds == ScaleInBounds(settings, CellLoad(view).scale)

\* C3: only the engine thread stores to the shared View cell.
C3_SingleWriter == writer \in { "none", "engine" }

\* C4: a load returns the whole argument of the most recently completed
\* store (or the initial value), never parts of two stores.
C4_NoTornRead ==
    /\ rview = rexpect
    /\ CellLoad(view) = stored

\* The reader has loaded a View the engine stored, whose center and scale
\* both differ from the initial ones.
C4_Witness ==
    /\ writer = "engine"
    /\ rview = stored
    /\ rview.center # DefaultView.center
    /\ rview.scale # DefaultView.scale

\* C7: after one or more reset_view() calls in a row the View is InitialView,
\* which holds the fields last passed to set_initial_view (a field never
\* passed holds its value from construction).
C7_ResetIdempotent ==
    /\ initial_view = passed
    /\ resets >= 1 => CellLoad(view) = initial_view

\* Two resets in a row after set_initial_view changed InitialView.
C7_Witness ==
    /\ resets >= 2
    /\ passed # DefaultView
    /\ view = passed

\* The velocity view_pan_delta after pan_delta(v), and after pan_delta(v) then
\* pan_delta(w), from the velocity `prior`.
Pan1(prior, v) ==
    pan_delta([DefaultAnim EXCEPT !.view_pan_delta = prior], settings, v).view_pan_delta
Pan2(prior, v, w) == Pan1(Pan1(prior, v), w)

\* Since the last tick the engine has applied two pan impulses and nothing else.
PairApplied ==
    /\ Len(applied) = 2
    /\ applied[1].kind = "PanDelta"
    /\ applied[2].kind = "PanDelta"

\* No sum of the prior velocity and the impulses leaves [-max_speed, max_speed].
NoClamp(prior, v, w) ==
    LET m == settings.max_speed
        ok(q) == Abs(q.x) <= m.val /\ Abs(q.y) <= m.val
    IN  m.some =>
           /\ ok(PtAdd(prior, v))
           /\ ok(PtAdd(prior, w))
           /\ ok(PtAdd(prior, PtAdd(v, w)))

PairFolds ==
    LET prior == tickLast.pan
        v == applied[1].dxy
        w == applied[2].dxy
    IN  /\ anim.view_pan_delta = Pan2(prior, w, v)
        /\ anim.view_pan_delta = Pan1(prior, PtAdd(v, w))

NotLarger(a, b) ==
    /\ Abs(a.pan.x) <= Abs(b.pan.x)
    /\ Abs(a.pan.y) <= Abs(b.pan.y)
    /\ Abs(a.zoom) <= Abs(b.zoom)

\* A constant-pan command giving 0 for an axis (a pan key released).
ZeroesAxis(msg) ==
    /\ msg.kind = "PanConst"
    /\ \/ msg.dx.some /\ msg.dx.val = 0
       \/ msg.dy.some /\ msg.dy.val = 0

\* C9 as stated: without impulse commands, constant-pan and drag commands
\* allowed, no component of the pan velocity nor the zoom velocity is larger
\* in absolute value after a tick than after the tick before.
C9_DecayMonotone == nticks >= 1 => NotLarger(tickLast, tickPrev)

\* C9: the same for the ticks before which no constant-pan command gave 0
\* for an axis.
C9_DecayMonotoneHeld ==
    (nticks >= 1 /\ \A i \in 1..Len(between) : ~ZeroesAxis(between[i]))
        => NotLarger(tickLast, tickPrev)

\* A tick after a pan key was pressed made every non-zero velocity smaller.
C9_Witness ==
    /\ nticks >= 1
    /\ HasKind(between, "PanConst")
    /\ \A i \in 1..Len(between) : ~ZeroesAxis(between[i])
    /\ tickPrev.pan.x # 0 /\ tickPrev.zoom # 0
    /\ Abs(tickLast.pan.x) < Abs(tickPrev.pan.x)
    /\ Abs(tickLast.zoom) < Abs(tickPrev.zoom)

\* Ticks within which the zoom velocities of RestZooms are at rest.
ZoomRest == 5

\* C10 as stated: without impulse commands, after a bounded number of ticks
\* the pan velocity and the zoom velocity are exactly 0 and stay 0.
C10_BothRest ==
    nticks >= ZoomRest
        => anim.view_pan_delta = ZeroPoint /\ anim.view_scale_delta = 0

\* C10: after a bounded number of ticks the zoom velocity is exactly 0 and
\* stays 0; the pan velocity is exactly 0 after a tick whose dt is 1 s or more.
C10_ZoomRests ==
    /\ nticks >= ZoomRest => anim.view_scale_delta = 0
    /\ (nticks >= 1 /\ pc \in { "recv", "sleep" } /\ dt >= TimeOne)
          => anim.view_pan_delta = ZeroPoint

\* The tick number ZoomRest brought the zoom velocity to 0 and left a pan
\* velocity that the tick before had left the same.
C10_Witness ==
    /\ nticks = ZoomRest
    /\ tickPrev.zoom # 0
    /\ anim.view_scale_delta = 0
    /\ anim.view_pan_delta # ZeroPoint
    /\ tickLast.pan = tickPrev.pan

\* The center one tick publishes from the center c, the vector d, the step
\* t and the scale s: c + d * t * s.
Moved(c, d, t, s) ==
    PtAdd(c, Pt(MulScale(MulTime(d.x, t), s), MulScale(MulTime(d.y, t), s)))

\* C11: with no drag origin set, a tick moves the center by (view_pan_const +
\* view_pan_delta) * dt * scale', with the velocity it had before the decay
\* and the scale it publishes; from center (0,0), scale 1.0, constant
\* (400,0), no impulse, no zoom velocity and dt = 0.005 it publishes center
\* (2.0, 0.0) and scale 1.0.
C11_PanIntegration ==
    [][(nticks' # nticks /\ ~anim.mouse_pan_screen_origin.some) =>
          /\ view'.center =
                Moved(before.center,
                      PtAdd(anim.view_pan_const, anim.view_pan_delta),
                      dt, view'.scale)
          /\ ( /\ before = DefaultView
               /\ anim.view_pan_const = Pt(400, 0)
               /\ anim.view_pan_delta = ZeroPoint
               /\ anim.view_scale_delta = 0
               /\ dt = 2 )
             => view' = MkView(Pt(2, 0), ScaleOne)]_vars

\* A tick with a changing scale has moved the center by both velocities.
C11_Witness ==
    /\ nticks = 1
    /\ ~anim.mouse_pan_screen_origin.some
    /\ anim.view_pan_const # ZeroPoint
    /\ tickPrev.pan # ZeroPoint
    /\ view.scale # before.scale
    /\ view.center # before.center

\* The scale with the configured bounds applied, the lower one first.
Bounded(cfg, s) ==
    LET lo == IF cfg.min_view_scale.some
              THEN Max(s, cfg.min_view_scale.val) ELSE s
    IN  IF cfg.max_view_scale.some THEN Min(lo, cfg.max_view_scale.val) ELSE lo

\* C12: a tick publishes scale' = clamp(scale + scale * dt * view_scale_delta)
\* with the zoom velocity it had before the decay; one wheel event of delta
\* 1.0 at scale 1.0 gives zoom velocity 1.0, and a tick with dt = 0.1 then
\* publishes scale 1.1.
C12_ZoomIntegration ==
    [][nticks' # nticks =>
          /\ view'.scale =
                Bounded(tsettings,
                        before.scale
                          + MulZoom(MulTime(before.scale, dt),
                                    anim.view_scale_delta))
          /\ ( /\ before.scale = ScaleOne
               /\ recvLog = << MsgZoomDelta(ZoomOne) >>
               /\ nticks = 0 )
             => /\ anim.view_scale_delta = ZoomOne
                /\ dt = TimeOne \div 10
                      => view'.scale = (11 * ScaleOne) \div 10]_vars

\* The tick after one wheel event of delta 1.0 at scale 1.0 has published 1.1.
C12_Witness ==
    /\ nticks = 1
    /\ recvLog = << MsgZoomDelta(ZoomOne) >>
    /\ before.scale = ScaleOne
    /\ dt = TimeOne \div 10
    /\ view.scale = (11 * ScaleOne) \div 10

\* C15: every message sent is applied once, in the order sent, or is still
\* in the channel: the log of the sends is the log of the applications
\* followed by the channel.
C15_ExactlyOnceInOrder == sentLog = recvLog \o chan

\* Two different messages were applied in the order sent, a third one waits.
C15_Witness ==
    /\ Len(recvLog) = 2
    /\ recvLog[1] # recvLog[2]
    /\ Len(chan) = 1
    /\ chan[1] # recvLog[2]

\* The center a tick publishes when the velocities are left out.
NoVelocity(a) ==
    [a EXCEPT !.view_pan_const = ZeroPoint, !.view_pan_delta = ZeroPoint]

DragVector == PtSub(pos.val, anim.mouse_pan_screen_origin.val)

\* C20 as stated: whenever a drag origin is set, view_pan_const and
\* view_pan_delta do not contribute to the center a tick publishes.
C20_DragIgnoresVelocity ==
    [][(nticks' # nticks /\ anim.mouse_pan_screen_origin.some) =>
          view'.center =
             Update(tsettings, NoVelocity(anim), before, pos,
                    dt).view.center]_vars

\* C20: when a drag origin is set and the mouse position is known, a tick
\* moves the center by (mouse_pos - origin) * mouse_pan_mult * dt * scale'
\* and the velocities do not contribute; otherwise it moves it by
\* (view_pan_const + view_pan_delta) * dt * scale'.
C20_DragWithMouse ==
    [][nticks' # nticks =>
          IF anim.mouse_pan_screen_origin.some /\ pos.some
          THEN view'.center =
                  Moved(before.center,
                        Pt(MulScale(DragVector.x, tsettings.mouse_pan_mult),
                           MulScale(DragVector.y, tsettings.mouse_pan_mult)),
                        dt, view'.scale)
          ELSE view'.center =
                  Moved(before.center,
                        PtAdd(anim.view_pan_const, anim.view_pan_delta),
                        dt, view'.scale)]_vars

\* A tick during a drag, with the mouse away from the origin and both
\* velocities non-zero, moved the center.
C20_Witness ==
    /\ nticks = 1
    /\ anim.mouse_pan_screen_origin.some
    /\ pos.some
    /\ pos.val # anim.mouse_pan_screen_origin.val
    /\ anim.view_pan_const # ZeroPoint
    /\ tickPrev.pan # ZeroPoint
    /\ view.center # before.center

\* What neither set_initial_view nor reset_view touches: the handler, the
\* channel, the mouse position and the settings.
EngineSide == << anim, chan, mouse_pos, settings >>

\* C13: set_initial_view(center, scale) replaces the fields of initial_view
\* that are given, keeps each omitted one, and changes neither the View nor
\* the handler, the channel, the mouse position or the settings.
C13_SetInitialViewFrame ==
    [][\A c \in InitCenters, s \in InitScales :
          SetInitialView(c, s) =>
             /\ initial_view'.center =
                   IF c.some THEN c.val ELSE initial_view.center
             /\ initial_view'.scale =
                   IF s.some THEN s.val ELSE initial_view.scale
             /\ view' = view
             /\ EngineSide' = EngineSide]_vars

\* set_initial_view has replaced the center alone, while the View is another
\* one and a zoom is under way.
C13_Witness ==
    /\ initial_view.center # DefaultView.center
    /\ initial_view.scale = DefaultView.scale
    /\ passed = initial_view
    /\ view # initial_view
    /\ anim.view_scale_delta # 0

\* C14: reset_view() stores initial_view to the View and changes nothing
\* else: not the drag origin, the constant pan, the velocities, initial_view
\* or the queued commands.
C14_ResetViewFrame ==
    [][resets' = resets + 1 =>
          /\ view' = initial_view
          /\ initial_view' = initial_view
          /\ EngineSide' = EngineSide]_vars

\* The engine is about to integrate from the View a reset stored, with the
\* zoom velocity it had.
C14_Witness ==
    /\ resets >= 1
    /\ pc = "store"
    /\ before = initial_view
    /\ before # DefaultView
    /\ anim.view_scale_delta # 0

\* The longest the engine thread is seen to be away between two steps.
LongestStall == CHOOSE t \in WakeTimes : \A u \in WakeTimes : u <= t

\* C16: the dt of an integration step stays under a ceiling that is shorter
\* than the longest stall of the engine thread.
C16_DtCeiling == pc \in { "load", "store" } => dt < LongestStall

C18_PanConstFrame ==
    [][(recvLog' # recvLog /\ Head(chan).kind = "PanConst") =>
          LET msg == Head(chan)
          IN  /\ ~msg.dx.some =>
                    /\ anim'.view_pan_const.x = anim.view_pan_const.x
                    /\ anim'.view_pan_delta.x = anim.view_pan_delta.x
              /\ ~msg.dy.some =>
                    /\ anim'.view_pan_const.y = anim.view_pan_const.y
                    /\ anim'.view_pan_delta.y = anim.view_pan_delta.y
              /\ msg.dx.some => anim'.view_pan_const.x = msg.dx.val
              /\ msg.dy.some => anim'.view_pan_const.y = msg.dy.val]_vars

\* The engine has just applied a command for the x axis alone, while the y
\* axis has an impulse velocity.
C18_Witness ==
    /\ applied # << >>
    /\ LET msg == applied[Len(applied)]
       IN  /\ msg.kind = "PanConst"
           /\ msg.dx.some /\ ~msg.dy.some
    /\ anim.view_pan_const.x # 0
    /\ anim.view_pan_delta.y # 0

\* The constant pan of an axis whose negative key is lo and positive key hi,
\* when at most one of them is down.
KeyPanOf(lo, hi) ==
    IF hi \in held THEN settings.key_pan_speed
    ELSE IF lo \in held THEN -settings.key_pan_speed
    ELSE 0

\* C19: once every key event is applied, an axis with exactly one key down
\* has that key's signed key_pan_speed as its constant pan, and an axis with
\* no key down has 0.
C19_KeysHeld ==
    chan = << >> =>
       /\ ~({ "KeyPanLeft", "KeyPanRight" } \subseteq held)
             => anim.view_pan_const.x = KeyPanOf("KeyPanLeft", "KeyPanRight")
       /\ ~({ "KeyPanUp", "KeyPanDown" } \subseteq held)
             => anim.view_pan_const.y = KeyPanOf("KeyPanUp", "KeyPanDown")

\* C21: when max_speed is configured, after every tick each component of
\* view_pan_delta lies in [-max_speed, max_speed].
C21_PanSpeedBound ==
    (nticks >= 1 /\ settings.max_speed.some) =>
       /\ Abs(tickLast.pan.x) <= settings.max_speed.val
       /\ Abs(tickLast.pan.y) <= settings.max_speed.val

\* The pan velocity in effect when no drag is under way.
EffectivePan(a) == PtAdd(a.view_pan_const, a.view_pan_delta)

\* C22: a constant-pan command that sets an axis to 0 replaces that axis of
\* view_pan_delta with the constant the axis had and zeroes the constant, so
\* the effective velocity of the axis right after the command is the constant
\* before it; each later tick multiplies view_pan_delta by the friction and
\* leaves the constant alone.
C22_Handover ==
    [][/\ (recvLog' # recvLog /\ Head(chan).kind = "PanConst") =>
             LET msg == Head(chan)
             IN  /\ msg.dx = SomeF(0) =>
                       /\ anim'.view_pan_delta.x = anim.view_pan_const.x
                       /\ anim'.view_pan_const.x = 0
                       /\ EffectivePan(anim').x = anim.view_pan_const.x
                 /\ msg.dy = SomeF(0) =>
                       /\ anim'.view_pan_delta.y = anim.view_pan_const.y
                       /\ anim'.view_pan_const.y = 0
                       /\ EffectivePan(anim').y = anim.view_pan_const.y
       /\ nticks' # nticks =>
             /\ anim'.view_pan_const = anim.view_pan_const
             /\ anim'.view_pan_delta =
                   Pt(MulFric(anim.view_pan_delta.x, Friction(dt)),
                      MulFric(anim.view_pan_delta.y, Friction(dt)))
             /\ Abs(anim'.view_pan_delta.x) <= Abs(anim.view_pan_delta.x)
             /\ Abs(anim'.view_pan_delta.y) <= Abs(anim.view_pan_delta.y)]_vars

\* A tick after the release of a held key: the constant of the x axis is 0 and
\* its velocity is below key_pan_speed and not yet 0.
C22_Witness ==
    /\ nticks >= 1
    /\ applied = << >>
    /\ \E i \in 1..Len(between) :
          between[i] = MsgPanConst(SomeF(0), NoneF)
    /\ tickPrev.pan.x = 0
    /\ anim.view_pan_const.x = 0
    /\ anim.view_pan_delta.x # 0
    /\ Abs(anim.view_pan_delta.x) < settings.key_pan_speed

\* C23: a wheel command of delta d applied while the View has scale s adds
\* d * max(log2(s), 1.0) to view_scale_delta: d when s <= 2.0, d * log2(s)
\* when s > 2.0 (twice d at s = 4.0), on top of the velocity already there.
C23_WheelImpulse ==
    [][(recvLog' # recvLog /\ Head(chan).kind = "ZoomDelta") =>
          LET d == Head(chan).dz
              sc == CellLoad(view).scale
              add == anim'.view_scale_delta - anim.view_scale_delta
          IN  /\ sc <= 2 * ScaleOne => add = d
              /\ sc > 2 * ScaleOne => add = MulScale(d, Log2(sc))
              /\ sc = 4 * ScaleOne => add = 2 * d]_vars

\* Two wheel commands of delta 1.0 were applied at scale 4.0 since the last
\* tick: the zoom velocity is 4.0 above the one the tick left.
C23_Witness ==
    /\ applied = << MsgZoomDelta(ZoomOne), MsgZoomDelta(ZoomOne) >>
    /\ view.scale = 4 * ScaleOne
    /\ anim.view_scale_delta = tickLast.zoom + 4 * ZoomOne

\* C24: the engine stores to the View in the integration step only, once per
\* tick: applying a command leaves the View as it is, and so does every other
\* step of the loop, so the View changes at most once per tick whatever the
\* number of commands drained before it.
C24_DrainDoesNotPublish ==
    [][/\ recvLog' # recvLog => (view' = view /\ stored' = stored)
       /\ (pc' # pc /\ nticks' = nticks) => (view' = view /\ stored' = stored)
       /\ view' # view => nticks' = nticks + 1
       /\ nticks' # nticks =>
             /\ nticks' = nticks + 1
             /\ view' = Update(tsettings, anim, before, pos, dt).view]_vars

\* A tick that followed two drained commands has published one new View.
C24_Witness ==
    /\ nticks >= 1
    /\ writer = "engine"
    /\ Len(between) >= 2
    /\ applied = << >>
    /\ view # before
    /\ view = stored

\* C25: with the engine thread scheduled fairly, integration steps occur
\* again and again, also while producers keep sending, and every command
\* waiting in the channel is followed by an integration step.
C25_EngineProgress ==
    /\ []<>(pc = "store")
    /\ (chan # << >>) ~> (pc = "store")

\* C26: an integration step runs only when more than update_delay has
\* elapsed since the step before (or since the start), so its dt is above
\* update_delay; with less, or exactly that much, the loop iteration sleeps
\* sleep_delay or longer and neither integrates nor publishes.
C26_MinTickInterval ==
    [][/\ nticks' # nticks => (dt > UpdateDelay /\ dt = elapsed)
       /\ (pc = "recv" /\ pc' = "load") => elapsed > UpdateDelay
       /\ (pc = "recv" /\ pc' = "sleep") =>
             /\ elapsed <= UpdateDelay
             /\ view' = view /\ anim' = anim /\ nticks' = nticks
       /\ (pc = "sleep" /\ pc' = "recv") =>
             /\ elapsed' >= elapsed + SleepDelay
             /\ view' = view /\ anim' = anim /\ nticks' = nticks]_vars

\* The first step ran one sleep_delay after update_delay had elapsed, and
\* published a new View.
C26_Witness ==
    /\ nticks = 1
    /\ pc = "recv"
    /\ dt = UpdateDelay + SleepDelay
    /\ elapsed = 0
    /\ view # DefaultView

\* The origin carried by the last pan-button event of a log: the position of
\* a press, none for a release or when there was no such event.
LastPanButton(log) ==
    LET idx == { i \in 1..Len(log) : log[i].kind = "SetMousePan" }
    IN  IF idx = { } THEN NoneP
        ELSE log[CHOOSE i \in idx : \A j \in idx : j <= i].origin

\* C27: once the engine has drained the commands, the drag origin is the
\* position of the most recent pan-button press when the last pan-button
\* event was a press, and absent when it was a release.
C27_DragFollowsLastEvent ==
    chan = << >> => anim.mouse_pan_screen_origin = LastPanButton(sentLog)

\* A press, a release and a press at another position were drained: the
\* origin is the position of the second press.
C27_Witness ==
    /\ chan = << >>
    /\ Len(recvLog) = 3
    /\ recvLog[1].origin.some /\ ~recvLog[2].origin.some
    /\ recvLog[3].origin.some
    /\ recvLog[3].origin # recvLog[1].origin
    /\ anim.mouse_pan_screen_origin = recvLog[3].origin

\* The handler is at rest: no constant pan, no velocity, no drag.
AtRest(a) ==
    /\ a.view_pan_const = ZeroPoint
    /\ a.view_pan_delta = ZeroPoint
    /\ a.view_scale_delta = 0
    /\ ~a.mouse_pan_screen_origin.some

\* C28: with no command pending and the handler at rest, an integration step
\* that finishes after a completed reset_view(), with no other store since,
\* publishes InitialView, wherever its load fell.
C28_ResetNotLost ==
    [][(nticks' # nticks /\ resets >= 1 /\ chan = << >> /\ AtRest(anim)) =>
          view' = initial_view]_vars

\* C29: a tick of a handler at rest (no constant pan, no velocity, no drag)
\* that loads a scale within the configured bounds publishes the View it
\* loaded and leaves the handler as it was, whatever its dt.
C29_IdleStable ==
    [][(/\ nticks' # nticks
        /\ AtRest(anim)
        /\ ScaleInBounds(tsettings, before.scale)) =>
          /\ view' = before
          /\ anim' = anim]_vars

\* A tick of one second, at rest, has published again the View it loaded,
\* which is not the default one.
C29_Witness ==
    /\ nticks = 1
    /\ AtRest(anim)
    /\ tickPrev = Velocities(DefaultAnim)
    /\ dt = TimeOne
    /\ before # DefaultView
    /\ ScaleInBounds(tsettings, before.scale)
    /\ view = before

=============================================================================
